---- MODULE Spec2Model ----
\* A model of BulletproofCollection (src/src/lib/BpCollection.js), an insertion
\* ordered key/value collection with optional mutation events, and of
\* Player.kill (src/unnamed/part_000).
EXTENDS Integers, Sequences, FiniteSets, TLC

\* ---------------------------------------------------------------- values
\* JavaScript's undefined and null.  Keys, values and returned sentinels are
\* strings, so that "a lookup that misses" and "a stored undefined" coincide
\* exactly as they do in the code.
Undefined == "undefined"
Null == "null"

\* Keys a caller may pass (null is an ordinary JavaScript value).
Keys == {"a", "b", Null}
KeyArgs == Keys \cup {Undefined}

\* Values a caller may pass.  "a1" stands for an object whose id is "a", "u1"
\* for an object without an id, Undefined for undefined.
Values == {"a1", "u1", Undefined}

\* Predicates handed to filter / filterToArray.
Preds == {"all", "none", "keyIsA", "notA1"}

\* Bounds of the model.
MaxOps == 5
RandomGrain == 3
MaxKills == 2

VARIABLES
  map,            \* this._map: the entries, in Map iteration order
  ec,             \* whether this._ec (the EventEmitter) exists
  enableEvents,   \* this._enableEvents, the configuration flag
  keyExtractor,   \* this._keyExtractor: Undefined or "id" (v => v.id)
  call,           \* the last call: its arguments, the map before it, its outcome
  nops,           \* number of calls made so far
  inserted,       \* the distinct keys ever stored by an insert
  removals,       \* the removals that deleted an entry
  fresh,          \* inserts of a key not present, since the last reset
  removedSince,   \* removals that deleted an entry, since the last reset
  arrival,        \* present keys, in the order they last became present
  pulled,         \* keys chosen by the current run of pullRandomKey calls
  runStart,       \* size when that run began
  alive,          \* Player._alive, per player
  role,           \* what the player's role.onDead does
  pc,             \* where each player's kill() is
  onDeadResult,   \* what onDead() resolved to in the current kill()
  killEvents,     \* 'kill' events emitted by the game, per player
  killResult,     \* what kill() resolved to
  atCall,         \* alive and killEvents as they were when kill() was called
  kills           \* kill() calls made, per player

bpcVars == <<map, ec, enableEvents, keyExtractor, call, nops, inserted, removals,
             fresh, removedSince, arrival, pulled, runStart>>
playerVars == <<alive, role, pc, onDeadResult, killEvents, killResult, atCall, kills>>
vars == <<map, ec, enableEvents, keyExtractor, call, nops, inserted, removals,
          fresh, removedSince, arrival, pulled, runStart,
          alive, role, pc, onDeadResult, killEvents, killResult, atCall, kills>>

\* ---------------------------------------------------------------- Map
\* The built-in Map the collection wraps: a sequence of [k, v] entries with
\* distinct keys, in insertion order.
Entry(k, v) == [k |-> k, v |-> v]

MapHas(m, k) == \E j \in 1..Len(m) : m[j].k = k

MapGet(m, k) ==
  IF MapHas(m, k) THEN m[CHOOSE j \in 1..Len(m) : m[j].k = k].v ELSE Undefined

\* A faulty Map.set that moves an overwritten key to the end.
MapSetMovesToEnd(m, k, v) ==
  Append(SelectSeq(m, LAMBDA e : e.k # k), Entry(k, v))

\* A faulty Map.set that leaves an existing key's value as it was.
MapSetKeepsExisting(m, k, v) ==
  IF MapHas(m, k) THEN m ELSE Append(m, Entry(k, v))

\* Map.prototype.set: an existing key keeps its position, a new one is appended.
MapSet(m, k, v) ==
  IF MapHas(m, k)
  THEN [j \in 1..Len(m) |-> IF m[j].k = k THEN Entry(k, v) ELSE m[j]]
  ELSE Append(m, Entry(k, v))

\* Map.prototype.delete: the map without k, and whether k was there.
MapDelete(m, k) ==
  [map |-> SelectSeq(m, LAMBDA e : e.k # k), deleted |-> MapHas(m, k)]

\* ---------------------------------------------------------------- reads
\* get size
size(m) == Len(m)

\* An index that may be undefined (lastIndex, keyToIndex).
NoIndex == [defined |-> FALSE, n |-> 0]
SomeIndex(n) == [defined |-> TRUE, n |-> n]

\* get lastIndex
lastIndex(m) == IF size(m) = 0 THEN NoIndex ELSE SomeIndex(size(m) - 1)

\* [Symbol.iterator]: the values, in Map order
iterator(m) == [j \in 1..Len(m) |-> m[j].v]

\* _keys / get keys: the keys, in Map order
keys(m) == [j \in 1..Len(m) |-> m[j].k]

\* _keysAndValues / get keysAndValues: the [key, value] pairs, in Map order
keysAndValues(m) == [j \in 1..Len(m) |-> <<m[j].k, m[j].v>>]

\* key(k)
key(m, k) == MapGet(m, k)

\* hasKey(k)
hasKey(m, k) == MapHas(m, k)

\* The loop of index / indexToKey: walk the sequence with a counter c and
\* return the element at which c = i; falling off the end returns undefined.
RECURSIVE ScanAt(_, _, _)
ScanAt(s, i, c) ==
  IF s = <<>> THEN Undefined
  ELSE IF c = i THEN Head(s)
  ELSE ScanAt(Tail(s), i, c + 1)

\* The loop of keyToIndex: the counter at the first element equal to k.
RECURSIVE ScanFor(_, _, _)
ScanFor(s, k, c) ==
  IF s = <<>> THEN NoIndex
  ELSE IF Head(s) = k THEN SomeIndex(c)
  ELSE ScanFor(Tail(s), k, c + 1)

\* index(i)
index(m, i) == ScanAt(iterator(m), i, 0)

\* indexToKey(i)
indexToKey(m, i) == ScanAt(keys(m), i, 0)

\* keyToIndex(k)
keyToIndex(m, k) == ScanFor(keys(m), k, 0)

\* hasIndex(i)
hasIndex(m, i) == (i >= 0) /\ (i < size(m))

\* get first: the first value the iterator yields, undefined when there is none
first(m) == IF iterator(m) = <<>> THEN Undefined ELSE Head(iterator(m))

\* get last
bpcLast(m) ==
  IF lastIndex(m).defined THEN index(m, lastIndex(m).n) ELSE Undefined

\* ---------------------------------------------------------------- transforms
\* The callbacks handed to filter and filterToArray, applied to (value, key).
Pred(p, v, k) ==
  CASE p = "all" -> TRUE
    [] p = "none" -> FALSE
    [] p = "keyIsA" -> k = "a"
    [] OTHER -> v # "a1"

\* forEach(fn): the (value, key) pairs fn is called with, in call order.
RECURSIVE forEach(_)
forEach(m) ==
  IF m = <<>> THEN <<>> ELSE <<<<m[1].v, m[1].k>>>> \o forEach(Tail(m))

\* map(fn) with fn = (value, key) => [value, key]: one result per forEach call.
RECURSIVE mapPairs(_)
mapPairs(visits) ==
  IF visits = <<>> THEN <<>> ELSE <<Head(visits)>> \o mapPairs(Tail(visits))
bpcMap(m) == mapPairs(forEach(m))

\* filter(fn): a fresh collection without events, filled by addCustom in
\* forEach order.  Stored keys are never undefined, so addCustom cannot throw.
RECURSIVE filterInto(_, _, _)
filterInto(res, visits, p) ==
  IF visits = <<>> THEN res
  ELSE LET v == Head(visits)[1]
           k == Head(visits)[2]
       IN filterInto(IF Pred(p, v, k) THEN MapSet(res, k, v) ELSE res,
                     Tail(visits), p)
filter(m, p) == filterInto(<<>>, forEach(m), p)

\* filterToArray(fn): the values fn accepts, pushed in forEach order.
RECURSIVE filterPush(_, _, _)
filterPush(res, visits, p) ==
  IF visits = <<>> THEN res
  ELSE LET v == Head(visits)[1]
           k == Head(visits)[2]
       IN filterPush(IF Pred(p, v, k) THEN Append(res, v) ELSE res,
                     Tail(visits), p)
filterToArray(m, p) == filterPush(<<>>, forEach(m), p)

\* ---------------------------------------------------------------- randomness
\* randomBetween(min, max) with Math.random() = r / RandomGrain, r in
\* 0..RandomGrain-1 (so Math.random() is in [0, 1)).  min and max are integers
\* here, so Math.ceil and Math.floor leave them as they are.
randomBetween(min, max, r) == ((r * (max - min + 1)) \div RandomGrain) + min

\* randomKey()
randomKey(m, r) ==
  IF size(m) # 0 THEN indexToKey(m, randomBetween(0, lastIndex(m).n, r))
  ELSE Undefined

\* random()
random(m, r) == key(m, randomKey(m, r))

\* ---------------------------------------------------------------- events
\* One emitted event: its name and the arguments listeners receive.  bpc is
\* the collection as a listener sees it when it runs (the entries at emit time).
Event(type, value, k, m) == [type |-> type, value |-> value, key |-> k, bpc |-> m]

\* The outcome of a method: the map it leaves, what it returns, the error it
\* raises ("none" when it returns), the events it emitted, and what its Map
\* call did ("set", "delete" or "nothing") with which key.
Outcome(m, ret, raised, emitted, did, k) ==
  [map |-> m, ret |-> ret, raised |-> raised, emitted |-> emitted,
   did |-> did, key |-> k]

\* if (this._ec) this._ec.emit(type, value, k, this), then return ret.
\* EventEmitter.emit runs the listeners synchronously and lets what a listener
\* throws propagate to the caller; lthrows says that a registered listener throws.
EmitAndReturn(m, e, type, value, k, lthrows, ret, did) ==
  IF e
  THEN IF lthrows
       THEN Outcome(m, Undefined, "ListenerError", <<Event(type, value, k, m)>>, did, k)
       ELSE Outcome(m, ret, "none", <<Event(type, value, k, m)>>, did, k)
  ELSE Outcome(m, ret, "none", <<>>, did, k)

\* ---------------------------------------------------------------- mutators
\* A faulty addCustom without the check: it stores undefined keys.
addCustomNoCheck(m, e, k, v, lthrows) ==
  EmitAndReturn(MapSet(m, k, v), e, "add", v, k, lthrows, "this", "set")

\* A faulty addCustom that emits before it stores.
addCustomEmitFirst(m, e, k, v, lthrows) ==
  IF k = Undefined
  THEN Outcome(m, Undefined, "InvalidArgumentsError", <<>>, "nothing", k)
  ELSE [EmitAndReturn(m, e, "add", v, k, lthrows, "this", "set")
          EXCEPT !.map = MapSet(m, k, v)]

\* addCustom(key, value)
addCustom(m, e, k, v, lthrows) ==
  IF k = Undefined
  THEN Outcome(m, Undefined, "InvalidArgumentsError", <<>>, "nothing", k)
  ELSE EmitAndReturn(MapSet(m, k, v), e, "add", v, k, lthrows, "this", "set")

\* The configured key extractor v => v.id applied to a value: the id, or a
\* TypeError when the value is undefined (reading a property of undefined).
ExtractId(v) ==
  CASE v = "a1" -> [raised |-> "none", key |-> "a"]
    [] v = "u1" -> [raised |-> "none", key |-> Undefined]
    [] OTHER -> [raised |-> "TypeError", key |-> Undefined]

\* this._keyExtractor(value): calling an unset extractor is a TypeError.
callKeyExtractor(ke, v) ==
  IF ke = Undefined THEN [raised |-> "TypeError", key |-> Undefined]
  ELSE ExtractId(v)

\* add(value)
add(m, e, ke, v, lthrows) ==
  LET x == callKeyExtractor(ke, v)
  IN IF x.raised # "none"
     THEN Outcome(m, Undefined, x.raised, <<>>, "nothing", Undefined)
     ELSE addCustom(m, e, x.key, v, lthrows)

\* What removeKey does once Map.delete has answered d.
removeKeyDone(d, e, value, k, lthrows, ret) ==
  EmitAndReturn(d.map, d.deleted /\ e, "remove", value, k, lthrows, ret,
                IF d.deleted THEN "delete" ELSE "nothing")

\* A faulty removeKey that emits 'remove' whether or not an entry was deleted.
removeKeyAlwaysEmits(m, e, k, lthrows) ==
  LET d == MapDelete(m, k)
  IN EmitAndReturn(d.map, e, "remove", key(m, k), k, lthrows, key(m, k),
                   IF d.deleted THEN "delete" ELSE "nothing")

\* removeKey(k)
removeKey(m, e, k, lthrows) ==
  LET value == key(m, k)
      d == MapDelete(m, k)
  IN removeKeyDone(d, e, value, k, lthrows, value)

\* A faulty removeIndex that counts positions from 1.
removeIndexFromOne(m, e, i, lthrows) == removeKey(m, e, indexToKey(m, i - 1), lthrows)

\* removeIndex(i)
removeIndex(m, e, i, lthrows) == removeKey(m, e, indexToKey(m, i), lthrows)

\* A faulty pullRandomKey that removes the first key whatever was drawn.
pullRandomKeyRemovesFirst(m, e, r, lthrows) ==
  LET randKey == randomKey(m, r)
      o == removeKey(m, e, indexToKey(m, 0), lthrows)
  IN IF o.raised = "none" THEN [o EXCEPT !.ret = randKey] ELSE o

\* pullRandomKey(): removeKey's effects, returning the key instead of the value.
pullRandomKey(m, e, r, lthrows) ==
  LET randKey == randomKey(m, r)
      o == removeKey(m, e, randKey, lthrows)
  IN IF o.raised = "none" THEN [o EXCEPT !.ret = randKey] ELSE o

\* pullRandom()
pullRandom(m, e, r, lthrows) == removeKey(m, e, randomKey(m, r), lthrows)

\* A faulty reset that clears nothing.
resetClearsNothing(m) == m

\* reset(): this._map.clear()
reset(m) == <<>>

\* ---------------------------------------------------------------- state machine
Indices == -1..Cardinality(Keys)
Draws == 0..(RandomGrain - 1)

\* Whether a registered listener throws: only an emitter has listeners.
Listener == IF ec THEN BOOLEAN ELSE {FALSE}

\* Whether this call is removeKey(k) coming right after a removeKey(k) with the
\* same k, and whether that earlier call found k ("afterHit") or not.
Again(op, k) ==
  IF op = "removeKey" /\ call.op = "removeKey" /\ call.k = k
  THEN IF hasKey(call.pre, k) THEN "afterHit" ELSE "afterMiss"
  ELSE "no"

Call(op, k, v, i, o) ==
  [op |-> op, k |-> k, v |-> v, i |-> i, pre |-> map, preEc |-> ec,
   ret |-> o.ret, raised |-> o.raised, emitted |-> o.emitted,
   did |-> o.did, key |-> o.key, again |-> Again(op, k)]

NoOutcome == Outcome(<<>>, Undefined, "none", <<>>, "nothing", Undefined)

\* The bookkeeping every call of a mutator shares: the new entries, the record
\* of the call, and the history the properties are stated over.
Apply(op, k, v, i, o) ==
  /\ nops < MaxOps
  /\ nops' = nops + 1
  /\ map' = o.map
  /\ call' = Call(op, k, v, i, o)
  /\ inserted' = IF o.did = "set" THEN inserted \cup {o.key} ELSE inserted
  /\ removals' = IF o.did = "delete" THEN removals + 1 ELSE removals
  /\ fresh' = IF o.did = "set" /\ ~hasKey(map, o.key) THEN fresh + 1 ELSE fresh
  /\ removedSince' = IF o.did = "delete" THEN removedSince + 1 ELSE removedSince
  /\ arrival' = CASE o.did = "set" /\ ~hasKey(map, o.key) -> Append(arrival, o.key)
                  [] o.did = "delete" -> SelectSeq(arrival, LAMBDA x : x # o.key)
                  [] OTHER -> arrival
  /\ pulled' = IF op # "pullRandomKey" THEN <<>>
               ELSE IF call.op = "pullRandomKey" THEN Append(pulled, o.key)
               ELSE <<o.key>>
  /\ runStart' = IF op # "pullRandomKey" THEN 0
                 ELSE IF call.op = "pullRandomKey" THEN runStart
                 ELSE size(map)
  /\ UNCHANGED <<ec, enableEvents, keyExtractor>>
  /\ UNCHANGED playerVars

AddCustom ==
  \E k \in KeyArgs, v \in Values, lthrows \in Listener :
    Apply("addCustom", k, v, 0, addCustom(map, ec, k, v, lthrows))

Add ==
  \E v \in Values, lthrows \in Listener :
    Apply("add", Undefined, v, 0, add(map, ec, keyExtractor, v, lthrows))

RemoveKey ==
  \E k \in KeyArgs, lthrows \in Listener :
    Apply("removeKey", k, Undefined, 0, removeKey(map, ec, k, lthrows))

RemoveIndex ==
  \E i \in Indices, lthrows \in Listener :
    Apply("removeIndex", Undefined, Undefined, i, removeIndex(map, ec, i, lthrows))

PullRandomKey ==
  \E r \in Draws, lthrows \in Listener :
    Apply("pullRandomKey", Undefined, Undefined, 0, pullRandomKey(map, ec, r, lthrows))

PullRandom ==
  \E r \in Draws, lthrows \in Listener :
    Apply("pullRandom", Undefined, Undefined, 0, pullRandom(map, ec, r, lthrows))

Reset ==
  /\ nops < MaxOps
  /\ nops' = nops + 1
  /\ map' = reset(map)
  /\ call' = Call("reset", Undefined, Undefined, 0, NoOutcome)
  /\ fresh' = 0
  /\ removedSince' = 0
  /\ arrival' = <<>>
  /\ pulled' = <<>>
  /\ runStart' = 0
  /\ UNCHANGED <<ec, enableEvents, keyExtractor, inserted, removals>>
  /\ UNCHANGED playerVars

\* activateEvents(): this._ec = new EventCenter() (Node provides EventEmitter).
ActivateEvents ==
  /\ nops < MaxOps
  /\ nops' = nops + 1
  /\ ec' = TRUE
  /\ call' = Call("activateEvents", Undefined, Undefined, 0,
                  [NoOutcome EXCEPT !.map = map])
  /\ pulled' = <<>>
  /\ runStart' = 0
  /\ UNCHANGED <<map, enableEvents, keyExtractor, inserted, removals, fresh,
                 removedSince, arrival>>
  /\ UNCHANGED playerVars

\* constructor(config): the flags are saved, events activated if asked for,
\* and reset() makes the empty Map.
InitBpc(ee, ke) ==
  /\ map = <<>>
  /\ enableEvents = ee
  /\ ec = ee
  /\ keyExtractor = ke
  /\ call = [op |-> "constructor", k |-> Undefined, v |-> Undefined, i |-> 0,
             pre |-> <<>>, preEc |-> FALSE, ret |-> Undefined, raised |-> "none",
             emitted |-> <<>>, did |-> "nothing", key |-> Undefined,
             again |-> "no"]
  /\ nops = 0
  /\ inserted = {}
  /\ removals = 0
  /\ fresh = 0
  /\ removedSince = 0
  /\ arrival = <<>>
  /\ pulled = <<>>
  /\ runStart = 0

\* ---------------------------------------------------------------- Player
Players == {"p1", "p2"}

\* What role.onDead is: absent, or a handler resolving to true, false, another
\* truthy value, or another falsy value.
Roles == {"none", "true", "false", "truthy", "falsy"}

\* onDead(): Boolean(await this.role.onDead(this.game)), true without a handler.
onDead(r) ==
  CASE r = "none" -> TRUE
    [] r = "true" -> TRUE
    [] r = "truthy" -> TRUE
    [] OTHER -> FALSE

\* constructor: this._alive = true
InitPlayers(roles) ==
  /\ role = roles
  /\ alive = [p \in Players |-> TRUE]
  /\ pc = [p \in Players |-> "idle"]
  /\ onDeadResult = [p \in Players |-> TRUE]
  /\ killEvents = [p \in Players |-> 0]
  /\ killResult = [p \in Players |-> FALSE]
  /\ atCall = [p \in Players |-> [alive |-> TRUE, killEvents |-> 0]]
  /\ kills = [p \in Players |-> 0]

\* kill() is called and suspends at await this.onDead().
KillCall(p) ==
  /\ pc[p] \in {"idle", "done"}
  /\ kills[p] < MaxKills
  /\ kills' = [kills EXCEPT ![p] = @ + 1]
  /\ atCall' = [atCall EXCEPT ![p] = [alive |-> alive[p], killEvents |-> killEvents[p]]]
  /\ pc' = [pc EXCEPT ![p] = "awaitOnDead"]
  /\ UNCHANGED <<alive, role, onDeadResult, killEvents, killResult>>
  /\ UNCHANGED bpcVars

\* onDead() resolves: this._alive = its result; if (!this._alive) the game's
\* 'kill' event is emitted and kill() suspends on it, else kill() returns.
KillResume(p) ==
  /\ pc[p] = "awaitOnDead"
  /\ LET res == onDead(role[p])
     IN /\ onDeadResult' = [onDeadResult EXCEPT ![p] = res]
        /\ alive' = [alive EXCEPT ![p] = res]
        /\ IF ~res
           THEN /\ killEvents' = [killEvents EXCEPT ![p] = @ + 1]
                /\ pc' = [pc EXCEPT ![p] = "awaitEmit"]
                /\ UNCHANGED killResult
           ELSE /\ killResult' = [killResult EXCEPT ![p] = res]
                /\ pc' = [pc EXCEPT ![p] = "done"]
                /\ UNCHANGED killEvents
  /\ UNCHANGED <<role, atCall, kills>>
  /\ UNCHANGED bpcVars

\* game.emit(...) resolves: return this._alive.
KillReturn(p) ==
  /\ pc[p] = "awaitEmit"
  /\ killResult' = [killResult EXCEPT ![p] = alive[p]]
  /\ pc' = [pc EXCEPT ![p] = "done"]
  /\ UNCHANGED <<alive, role, onDeadResult, killEvents, atCall, kills>>
  /\ UNCHANGED bpcVars

\* ---------------------------------------------------------------- specifications
Init ==
  /\ \E ee \in BOOLEAN, ke \in {Undefined, "id"} : InitBpc(ee, ke)
  /\ InitPlayers([p \in Players |-> "none"])

Next ==
  \/ AddCustom
  \/ Add
  \/ RemoveKey
  \/ RemoveIndex
  \/ PullRandomKey
  \/ PullRandom
  \/ Reset
  \/ ActivateEvents

Spec == Init /\ [][Next]_vars

PlayerInit ==
  /\ InitBpc(FALSE, Undefined)
  /\ \E roles \in [Players -> Roles] : InitPlayers(roles)

PlayerNext ==
  \/ \E p \in Players : KillCall(p)
  \/ \E p \in Players : KillResume(p)
  \/ \E p \in Players : KillReturn(p)

PlayerSpec == PlayerInit /\ [][PlayerNext]_vars

\* ---------------------------------------------------------------- properties
Inserters == {"addCustom", "add"}
Removers == {"removeKey", "removeIndex", "pullRandomKey", "pullRandom"}
Mutators == Inserters \cup Removers

\* The sequence s without its element at 0-based position i.
Without(s, i) == SubSeq(s, 1, i) \o SubSeq(s, i + 2, Len(s))

\* The set of elements of a sequence.
Range(s) == {s[j] : j \in 1..Len(s)}

\* C1: after addCustom(k, v) returns, for a key k that is neither undefined nor
\* null, key(k) is v, hasKey(k) holds, size grew by one if k was new and is
\* unchanged if k was present, and every other key keeps its value.
C1_AddCustomPostcondition ==
  (call.op = "addCustom" /\ call.raised = "none" /\ call.k \notin {Undefined, Null}) =>
    /\ key(map, call.k) = call.v
    /\ hasKey(map, call.k)
    /\ size(map) = size(call.pre) + (IF hasKey(call.pre, call.k) THEN 0 ELSE 1)
    /\ \A k2 \in Keys \ {call.k} :
         /\ key(map, k2) = key(call.pre, k2)
         /\ hasKey(map, k2) = hasKey(call.pre, k2)

\* An overwrite of a present key with another value, beside a second entry.
C1_Witness ==
  /\ call.op = "addCustom" /\ call.raised = "none" /\ call.k = "a"
  /\ hasKey(call.pre, "a") /\ key(call.pre, "a") # call.v
  /\ size(map) = 2

\* C2 as stated: addCustom with an undefined or null key fails with
\* InvalidArgumentsError, changes nothing and emits nothing, and no state holds
\* an undefined or null key.
C2_AbsentKeyRejected ==
  /\ (call.op = "addCustom" /\ call.k \in {Undefined, Null}) =>
       /\ call.raised = "InvalidArgumentsError"
       /\ map = call.pre
       /\ call.emitted = <<>>
  /\ \A j \in 1..Len(map) : map[j].k \notin {Undefined, Null}

\* C2 amended: addCustom with an undefined key fails with InvalidArgumentsError,
\* changes nothing and emits nothing, and no state holds an undefined key; a
\* null key is stored like any other key.
C2_UndefinedKeyRejected ==
  /\ (call.op = "addCustom" /\ call.k = Undefined) =>
       /\ call.raised = "InvalidArgumentsError"
       /\ map = call.pre
       /\ size(map) = size(call.pre)
       /\ call.emitted = <<>>
  /\ (call.op = "addCustom" /\ call.k = Null) =>
       /\ call.raised # "InvalidArgumentsError"
       /\ key(map, Null) = call.v
       /\ hasKey(map, Null)
  /\ \A j \in 1..Len(map) : map[j].k # Undefined

\* addCustom(undefined, v) on a collection with an emitter and an entry.
C2_Witness ==
  /\ call.op = "addCustom" /\ call.k = Undefined
  /\ call.preEc /\ size(call.pre) >= 1

\* C3 as stated: size is the number of distinct keys ever inserted minus the
\* number of removals that deleted an entry.
C3_SizeIsDistinctMinusRemoved == size(map) = Cardinality(inserted) - removals

\* C3 amended: size is the number of inserts that stored a key not present at
\* the time minus the number of removals that deleted an entry, both counted
\* since the last reset (or since construction).
C3_SizeIsFreshMinusRemoved == size(map) = fresh - removedSince

\* A key inserted, removed and inserted again.
C3_Witness ==
  /\ fresh >= 2 /\ removedSince >= 1 /\ Cardinality(inserted) = 1 /\ size(map) = 1

\* C4: a mutating call that raises leaves the entries, their order and the
\* size as they were before the call.
C4_RaisingCallChangesNothing ==
  (call.op \in Mutators /\ call.raised # "none") =>
    (map = call.pre /\ size(map) = size(call.pre))

\* What C5 says of a collection whose emitter exists: a stored insert emits
\* exactly one 'add' (value, key, collection) and the listener sees key(key) =
\* value; a removal that deleted emits exactly one 'remove' (removed value, key,
\* collection) and the listener sees the key gone and the size decreased; a
\* call that stored and deleted nothing emits nothing.
EventsFollowMutations ==
  /\ (call.op \in Inserters /\ call.did = "set" /\ call.preEc) =>
       /\ call.emitted = <<Event("add", call.v, call.key, map)>>
       /\ key(call.emitted[1].bpc, call.key) = call.v
       /\ hasKey(call.emitted[1].bpc, call.key)
  /\ (call.op \in Removers /\ call.did = "delete" /\ call.preEc) =>
       /\ call.emitted = <<Event("remove", key(call.pre, call.key), call.key, map)>>
       /\ ~hasKey(call.emitted[1].bpc, call.key)
       /\ size(call.emitted[1].bpc) = size(call.pre) - 1
  /\ (call.op \in Mutators /\ call.did = "nothing") => call.emitted = <<>>

\* C5 as stated: events follow the mutations when events are on, and a
\* collection constructed without events never emits.
C5_EventsAsConstructed ==
  /\ EventsFollowMutations
  /\ ~enableEvents => call.emitted = <<>>

\* C5 amended: events follow the mutations whenever the emitter exists
\* (constructed with events, or activateEvents() called since), and a call
\* made while no emitter exists emits nothing.
C5_EventsWhileEmitterExists ==
  /\ EventsFollowMutations
  /\ ~call.preEc => call.emitted = <<>>

\* pullRandom() deleting one of two entries of a collection built with events.
C5_Witness ==
  /\ enableEvents /\ call.op = "pullRandom" /\ call.did = "delete"
  /\ size(call.pre) = 2 /\ Len(call.emitted) = 1

\* The keys k of the sequence ks for which the predicate p accepts (value, k).
Accepted(ks, m, p) == SelectSeq(ks, LAMBDA k : Pred(p, key(m, k), k))

\* C6: keys, keysAndValues, value iteration, forEach, map, filter and
\* filterToArray all follow the order in which the present keys last became
\* present, and an insert on a present key changes no key's position.
C6_ArrivalOrder ==
  /\ keys(map) = arrival
  /\ keysAndValues(map) = [j \in 1..Len(arrival) |-> <<arrival[j], key(map, arrival[j])>>]
  /\ iterator(map) = [j \in 1..Len(arrival) |-> key(map, arrival[j])]
  /\ forEach(map) = [j \in 1..Len(arrival) |-> <<key(map, arrival[j]), arrival[j]>>]
  /\ bpcMap(map) = [j \in 1..Len(arrival) |-> <<key(map, arrival[j]), arrival[j]>>]
  /\ \A p \in Preds :
       LET acc == Accepted(arrival, map, p)
           res == filter(map, p)
       IN /\ keys(res) = acc
          /\ iterator(res) = [j \in 1..Len(acc) |-> key(map, acc[j])]
          /\ filterToArray(map, p) = iterator(res)
  /\ (call.op \in Inserters /\ call.did = "set" /\ hasKey(call.pre, call.key)) =>
       keys(map) = keys(call.pre)

\* The first of two keys overwritten with another value.
C6_Witness ==
  /\ call.op = "addCustom" /\ call.did = "set" /\ size(call.pre) = 2
  /\ keys(call.pre)[1] = call.k /\ key(call.pre, call.k) # call.v

\* C7: in a run of consecutive pullRandomKey() calls begun on n entries, each
\* of the first n calls picks a key that was present and was not picked
\* before, returns it, removes exactly it and leaves the others in order, so
\* that the n-th leaves size 0; every later call returns undefined, raises
\* nothing, emits nothing and leaves the collection empty.
C7_PullRandomKeyRun ==
  call.op = "pullRandomKey" =>
    LET c == Len(pulled)
    IN /\ c >= 1
       /\ (c <= runStart) =>
            /\ size(call.pre) > 0
            /\ call.key \in Range(keys(call.pre))
            /\ call.key \notin Range(SubSeq(pulled, 1, c - 1))
            /\ call.raised = "none" => call.ret = call.key
            /\ call.raised \in {"none", "ListenerError"}
            /\ size(map) = size(call.pre) - 1
            /\ map = SelectSeq(call.pre, LAMBDA e : e.k # call.key)
            /\ size(map) = runStart - c
       /\ (c > runStart) =>
            /\ call.pre = <<>>
            /\ call.ret = Undefined
            /\ call.raised = "none"
            /\ call.emitted = <<>>
            /\ map = <<>>

\* The third pullRandomKey() of a run begun on two entries.
C7_Witness ==
  /\ call.op = "pullRandomKey" /\ runStart = 2 /\ Len(pulled) = 3

\* C8: removeKey(k) on a present k deletes k and returns its value;
\* removeKey(k) right after it, removeKey of any key not present and
\* removeIndex of an index out of range return undefined, raise nothing, emit
\* nothing and leave the entries, their order and the size as they were.
C8_RemoveTwice ==
  /\ (call.op = "removeKey" /\ hasKey(call.pre, call.k)) =>
       /\ call.raised = "none" => call.ret = key(call.pre, call.k)
       /\ ~hasKey(map, call.k)
       /\ size(map) = size(call.pre) - 1
  /\ (\/ call.again = "afterHit"
      \/ call.op = "removeKey" /\ ~hasKey(call.pre, call.k)
      \/ call.op = "removeIndex" /\ ~(0 <= call.i /\ call.i < size(call.pre))) =>
       /\ call.ret = Undefined
       /\ call.raised = "none"
       /\ call.emitted = <<>>
       /\ map = call.pre
       /\ size(map) = size(call.pre)

\* removeKey(k) right after a removeKey(k) that found k, with an emitter and
\* another entry left.
C8_Witness ==
  /\ call.again = "afterHit" /\ call.preEc /\ size(map) >= 1

\* C9: when kill() is done, a confirmed kill (onDead() true) has left the
\* player dead, emitted one 'kill' event and resolved to true; a cancelled kill
\* (onDead() false) has left alive as it was, emitted nothing and resolved to
\* false.
C9_KillContract ==
  \A p \in Players :
    pc[p] = "done" =>
      IF onDeadResult[p]
      THEN /\ alive[p] = FALSE
           /\ killEvents[p] = atCall[p].killEvents + 1
           /\ killResult[p] = TRUE
      ELSE /\ alive[p] = atCall[p].alive
           /\ killEvents[p] = atCall[p].killEvents
           /\ killResult[p] = FALSE

====
